---- MODULE Spec2Model ----
(***************************************************************************)
(* Verification model of the football-betting analysis engine:             *)
(*   ModelosEstatisticos        (src/modelos_estatisticos.py)              *)
(*   AnalisadorTextoEstatistico (src/analisador_texto.py)                  *)
(* src/modelo_de_analise.py carries verbatim copies of both classes.       *)
(*                                                                         *)
(* Numbers.  A float is modelled by the rational it denotes, a pair        *)
(* <<n, d>> in lowest terms with d > 0; IEEE's special values are the      *)
(* pairs with d = 0: <<1,0>> is +inf, <<-1,0>> is -inf, <<0,0>> is NaN.    *)
(*                                                                         *)
(* The scoreline-distribution code (Poisson, Dixon-Coles, the sums over a  *)
(* distribution) is modelled in exact rational arithmetic: scipy's         *)
(* poisson.pmf(k, mu) = mu^k e^-mu / k! is carried as the rational         *)
(* mu^k / k!, the common positive factor e^-(mu_casa + mu_visitante) of    *)
(* every cell being cancelled by the code's own normalisation.  Equalities *)
(* proved of it are equalities up to float64 rounding in the program.      *)
(*                                                                         *)
(* The value calculator (valor esperado, odds justas, Kelly) is elementary *)
(* IEEE arithmetic and is modelled with rounding: every operation rounds   *)
(* its exact result to the nearest float of MantissaBits significant bits, *)
(* ties to even (float64 has 53; the exponent range is not bounded).       *)
(***************************************************************************)
EXTENDS Integers, Sequences, FiniteSets, TLC

(***************************************************************************)
(* Bounds of the model.                                                    *)
(***************************************************************************)
\* significand width of the modelled binary floating-point format
MantissaBits == 6
\* largest max_gols handed to ModelosEstatisticos directly
MaxGolsBound == 2
\* largest n_simulacoes handed to simular_monte_carlo
MaxSimulacoes == 2

(***************************************************************************)
(* Exact rational arithmetic with IEEE special values.                     *)
(***************************************************************************)
Abs(n) == IF n < 0 THEN -n ELSE n

Sign(n) == IF n < 0 THEN -1 ELSE IF n > 0 THEN 1 ELSE 0

RECURSIVE GCD(_, _)
GCD(a, b) == IF b = 0 THEN Abs(a) ELSE GCD(b, a % Abs(b))

RECURSIVE Pow(_, _)
Pow(b, e) == IF e <= 0 THEN 1 ELSE b * Pow(b, e - 1)

RECURSIVE Fact(_)
Fact(k) == IF k <= 1 THEN 1 ELSE k * Fact(k - 1)

(***************************************************************************)
(* Long naturals.  The exact value of a 36-cell distribution of rates such *)
(* as 9/5 and 6/5 has numerators and denominators beyond 32 bits; a long   *)
(* natural is the sequence of its base-10000 digits, lowest first, with no *)
(* leading zero digit (<<>> is 0).  A long rational is a triple            *)
(* <<numerator, denominator, "longo">> of long naturals, denominator # 0:  *)
(* a finite number >= 0.  The operations below give the exact value of the *)
(* float operation they stand for, as those on pairs of integers do; the   *)
(* comparison RLt takes numbers of both kinds.                             *)
(***************************************************************************)
RECURSIVE LDeInt(_)
\* the long natural of the integer n >= 0
LDeInt(n) == IF n = 0 THEN <<>> ELSE <<n % 10000>> \o LDeInt(n \div 10000)

RECURSIVE LSoma(_, _, _)
\* a + b + c, c the carry
LSoma(a, b, c) ==
    IF a = <<>> /\ b = <<>> THEN LDeInt(c)
    ELSE LET x == (IF a = <<>> THEN 0 ELSE a[1]) + (IF b = <<>> THEN 0 ELSE b[1]) + c
         IN  <<x % 10000>> \o LSoma(IF a = <<>> THEN a ELSE Tail(a),
                                    IF b = <<>> THEN b ELSE Tail(b), x \div 10000)

RECURSIVE LVezesDigito(_, _, _)
\* a * k + c for one digit k > 0
LVezesDigito(a, k, c) ==
    IF a = <<>> THEN LDeInt(c)
    ELSE LET x == a[1] * k + c
         IN  <<x % 10000>> \o LVezesDigito(Tail(a), k, x \div 10000)

\* a * 10000
LDesloca(a) == IF a = <<>> THEN a ELSE <<0>> \o a

RECURSIVE LMul(_, _)
LMul(a, b) ==
    IF a = <<>> \/ b = <<>> THEN <<>>
    ELSE LSoma(IF a[1] = 0 THEN <<>> ELSE LVezesDigito(b, a[1], 0),
               LDesloca(LMul(Tail(a), b)), 0)

RECURSIVE LMenorDe(_, _, _)
\* a < b for two long naturals of equal length, compared from digit k down
LMenorDe(a, b, k) ==
    IF k = 0 THEN FALSE
    ELSE IF a[k] # b[k] THEN a[k] < b[k]
    ELSE LMenorDe(a, b, k - 1)

LMenor(a, b) ==
    IF Len(a) # Len(b) THEN Len(a) < Len(b) ELSE LMenorDe(a, b, Len(a))

RECURSIVE LDivDigito(_, _)
\* quotient q (digits, leading zeros kept) and remainder r of a by k, 0 < k < 10000
LDivDigito(a, k) ==
    IF a = <<>> THEN [q |-> <<>>, r |-> 0]
    ELSE LET alto == LDivDigito(Tail(a), k)
             x == alto.r * 10000 + a[1]
         IN  [q |-> <<x \div k>> \o alto.q, r |-> x % k]

RECURSIVE LSemZeros(_)
\* the digits of a without its leading zeros
LSemZeros(a) ==
    IF a = <<>> \/ a[Len(a)] # 0 THEN a ELSE LSemZeros(SubSeq(a, 1, Len(a) - 1))

RECURSIVE LCancela(_, _, _)
\* n/d with the common factors k of n and d cancelled
LCancela(n, d, k) ==
    LET qn == LDivDigito(n, k)
        qd == LDivDigito(d, k)
    IN  IF n = <<>> \/ qn.r # 0 \/ qd.r # 0 THEN <<n, d, "longo">>
        ELSE LCancela(LSemZeros(qn.q), LSemZeros(qd.q), k)

\* n/d with the common factors 2, 3 and 5 cancelled: lowest terms when one of
\* n and d has no other prime factor, as for the powers and factorials of
\* poisson_pmf with rates in tenths; the value is n/d in every case
LongoDe(n, d) ==
    LET a == LCancela(n, d, 2)
        b == LCancela(a[1], a[2], 3)
    IN  LCancela(b[1], b[2], 5)

RECURSIVE LPow(_, _)
LPow(b, e) == IF e <= 0 THEN <<1>> ELSE LMul(b, LPow(b, e - 1))

EhLongo(x) == Len(x) = 3

\* the long rational of a finite rational x >= 0
ParaLongo(x) == IF EhLongo(x) THEN x ELSE <<LDeInt(x[1]), LDeInt(x[2]), "longo">>

LongoAdd(x, y) ==
    IF x[2] = y[2] THEN LongoDe(LSoma(x[1], y[1], 0), x[2])
    ELSE LongoDe(LSoma(LMul(x[1], y[2]), LMul(y[1], x[2]), 0), LMul(x[2], y[2]))

LongoMul(x, y) == LongoDe(LMul(x[1], y[1]), LMul(x[2], y[2]))

\* x / y for y > 0
LongoDiv(x, y) == LongoDe(LMul(x[1], y[2]), LMul(x[2], y[1]))

LongoLt(x, y) ==
    IF x[2] = y[2] THEN LMenor(x[1], y[1])
    ELSE LMenor(LMul(x[1], y[2]), LMul(y[1], x[2]))

LongoEq(x, y) == LMul(x[1], y[2]) = LMul(y[1], x[2])

RECURSIVE LongoSumRange(_, _, _)
\* s[lo] + ... + s[hi], as RSumRange
LongoSumRange(s, lo, hi) ==
    IF lo > hi THEN ParaLongo(<<0, 1>>)
    ELSE IF lo = hi THEN s[lo]
    ELSE LET mid == (lo + hi) \div 2
         IN  LongoAdd(LongoSumRange(s, lo, mid), LongoSumRange(s, mid + 1, hi))

LongoSum(s) == LongoSumRange(s, 1, Len(s))

NaN == <<0, 0>>
PosInf == <<1, 0>>
NegInf == <<-1, 0>>
Zero == <<0, 1>>
One == <<1, 1>>

\* n/d in lowest terms with a positive denominator (d # 0)
Q(n, d) ==
    LET g == GCD(n, d)
        s == IF d < 0 THEN -1 ELSE 1
    IN  <<(s * n) \div g, (s * d) \div g>>

IsNaN(x) == x[1] = 0 /\ x[2] = 0
IsInf(x) == x[1] # 0 /\ x[2] = 0
IsFinite(x) == x[2] # 0

RNeg(x) == <<-x[1], x[2]>>

RAdd(x, y) ==
    IF IsNaN(x) \/ IsNaN(y) THEN NaN
    ELSE IF IsInf(x) /\ IsInf(y) THEN (IF x = y THEN x ELSE NaN)
    ELSE IF IsInf(x) THEN x
    ELSE IF IsInf(y) THEN y
    ELSE LET g == GCD(x[2], y[2])
             l == (x[2] \div g) * y[2]
         IN  Q(x[1] * (l \div x[2]) + y[1] * (l \div y[2]), l)

RSub(x, y) == RAdd(x, RNeg(y))

RMul(x, y) ==
    IF IsNaN(x) \/ IsNaN(y) THEN NaN
    ELSE IF IsInf(x) \/ IsInf(y)
         THEN (IF x[1] = 0 \/ y[1] = 0 THEN NaN ELSE <<Sign(x[1]) * Sign(y[1]), 0>>)
    ELSE LET g1 == GCD(x[1], y[2])
             g2 == GCD(y[1], x[2])
         IN  Q((x[1] \div g1) * (y[1] \div g2), (x[2] \div g2) * (y[2] \div g1))

\* IEEE division (numpy.float64 operands): x/0 is an infinity or NaN, never an error
RDiv(x, y) ==
    IF IsNaN(x) \/ IsNaN(y) THEN NaN
    ELSE IF IsInf(y) THEN (IF IsInf(x) THEN NaN ELSE Zero)
    ELSE IF y[1] = 0 THEN <<Sign(x[1]), 0>>
    ELSE IF IsInf(x) THEN <<Sign(x[1]) * Sign(y[1]), 0>>
    ELSE RMul(x, Q(y[2], y[1]))

\* comparisons; every comparison with NaN is false
RLt(x, y) ==
    IF EhLongo(x) \/ EhLongo(y) THEN LongoLt(ParaLongo(x), ParaLongo(y))
    ELSE IF IsNaN(x) \/ IsNaN(y) THEN FALSE
    ELSE IF IsInf(x) \/ IsInf(y)
         THEN (IF IsInf(x) /\ IsInf(y) THEN x[1] < y[1]
               ELSE IF IsInf(x) THEN x[1] < 0
               ELSE y[1] > 0)
    ELSE Sign(RSub(x, y)[1]) < 0

RGt(x, y) == RLt(y, x)

RLe(x, y) == ~IsNaN(x) /\ ~IsNaN(y) /\ ~RLt(y, x)

REq(x, y) == ~IsNaN(x) /\ ~IsNaN(y) /\ x = y

RAbs(x) == <<Abs(x[1]), x[2]>>

RECURSIVE RSumRange(_, _, _)
\* s[lo] + ... + s[hi]; exact addition is associative, so the halving gives the
\* value of the code's left-to-right accumulation
RSumRange(s, lo, hi) ==
    IF lo > hi THEN Zero
    ELSE IF lo = hi THEN s[lo]
    ELSE LET mid == (lo + hi) \div 2
         IN  RAdd(RSumRange(s, lo, mid), RSumRange(s, mid + 1, hi))

\* total = 0; for x in s: total += x
RSum(s) == RSumRange(s, 1, Len(s))

(***************************************************************************)
(* Binary floating point with MantissaBits significant bits: the rounding  *)
(* every elementary float operation of the value calculator applies.       *)
(***************************************************************************)
\* n/d (n, d > 0 integers) rounded to the nearest integer, ties to even
RoundHalfEven(n, d) ==
    LET q == n \div d
        r == n % d
    IN  IF 2 * r < d THEN q
        ELSE IF 2 * r > d THEN q + 1
        ELSE IF q % 2 = 0 THEN q ELSE q + 1

RECURSIVE FlPos(_, _, _, _)
\* (n/d) * (ns/ds) is the value being rounded; n/d is scaled by powers of two
\* into [2^(MantissaBits-1), 2^MantissaBits) and rounded to an integer there
FlPos(n, d, ns, ds) ==
    IF n < Pow(2, MantissaBits - 1) * d THEN FlPos(2 * n, d, ns, 2 * ds)
    ELSE IF n >= Pow(2, MantissaBits) * d THEN FlPos(n, 2 * d, 2 * ns, ds)
    ELSE RMul(Q(RoundHalfEven(n, d), 1), Q(ns, ds))

\* the float nearest to the number x
Fl(x) ==
    IF ~IsFinite(x) \/ x[1] = 0 THEN x
    ELSE IF x[1] < 0 THEN RNeg(FlPos(-x[1], x[2], 1, 1))
    ELSE FlPos(x[1], x[2], 1, 1)

\* the float a decimal literal n/d denotes (float("0.6"), 2.5, ...)
F(n, d) == Fl(Q(n, d))

FAdd(x, y) == Fl(RAdd(x, y))
FSub(x, y) == Fl(RSub(x, y))
FMul(x, y) == Fl(RMul(x, y))
FDiv(x, y) == Fl(RDiv(x, y))

(***************************************************************************)
(* scipy.stats.poisson.pmf(k, mu), without its factor e^-mu (see the       *)
(* header): mu^k / k! for mu > 0, NaN for mu < 0 (scipy's argument check   *)
(* fails and every value is NaN; no exception is raised).                  *)
(***************************************************************************)
poisson_pmf(k, mu) ==
    IF mu[1] < 0 THEN NaN
    ELSE Q(Pow(mu[1], k), Pow(mu[2], k) * Fact(k))

(***************************************************************************)
(* An ordered dict {(i, j): prob} is a sequence of items in insertion      *)
(* order.                                                                  *)
(***************************************************************************)
Item(i, j, p) == [placar |-> <<i, j>>, prob |-> p]

\* list(s): the items of s, each evaluated once, as a sequence
Lista(s) == s \o <<>>

\* for i in range(max_gols + 1): for j in range(max_gols + 1): the cells in loop order
Grid(max_gols) ==
    IF max_gols < 0 THEN <<>>
    ELSE Lista([k \in 1..((max_gols + 1) * (max_gols + 1)) |->
                  <<(k - 1) \div (max_gols + 1), (k - 1) % (max_gols + 1)>>])

Probs(d) == Lista([k \in 1..Len(d) |-> d[k].prob])

Placares(d) == Lista([k \in 1..Len(d) |-> d[k].placar])

\* a sort that puts the later of two items of equal key first
SortPosEmpatesInvertidos(d, k) ==
    1 + Cardinality({m \in 1..Len(d) :
                        IF m > k THEN ~RLt(d[m].prob, d[k].prob)
                        ELSE RLt(d[k].prob, d[m].prob)})

\* the 1-based position Python's stable descending sort gives item k of d: after
\* every item of strictly greater key and every earlier item of equal key
\* (keys that do not compare, NaN, count as equal and keep their order)
SortPos(d, k) ==
    1 + Cardinality({m \in 1..Len(d) :
                        IF m < k THEN ~RLt(d[m].prob, d[k].prob)
                        ELSE RLt(d[k].prob, d[m].prob)})

\* sorted(d.items(), key=lambda item: item[1], reverse=True), kept as a dict
SortedByProbDesc(d) ==
    LET pos == Lista([k \in 1..Len(d) |-> SortPos(d, k)])
    IN  Lista([r \in 1..Len(d) |-> d[CHOOSE k \in 1..Len(d) : pos[k] = r]])

\* for key in probabilidades: probabilidades[key] = probabilidades[key] / total_prob
Normalizar(d, total_prob) ==
    Lista([k \in 1..Len(d) |->
            [placar |-> d[k].placar, prob |-> RDiv(d[k].prob, total_prob)]])

\* a variant that reads the home rate for both teams
calcular_probabilidades_poisson_taxa_unica(lambda_casa, lambda_visitante, max_gols) ==
    LET g == Grid(max_gols)
        probabilidades == Lista([k \in 1..Len(g) |->
            Item(g[k][1], g[k][2],
                 RMul(poisson_pmf(g[k][1], lambda_casa), poisson_pmf(g[k][2], lambda_casa)))])
        total_prob == RSum(Probs(probabilidades))
    IN  SortedByProbDesc(Normalizar(probabilidades, total_prob))

\* a variant whose (0, 0) adjustment lost its leading 1
tau_sem_unidade(x, y, lambda_x, lambda_y, rho) ==
    IF x = 0 /\ y = 0 THEN RNeg(RMul(RMul(lambda_x, lambda_y), rho))
    ELSE IF x = 0 /\ y = 1 THEN RAdd(One, RMul(lambda_x, rho))
    ELSE IF x = 1 /\ y = 0 THEN RAdd(One, RMul(lambda_y, rho))
    ELSE IF x = 1 /\ y = 1 THEN RSub(One, rho)
    ELSE One

(***************************************************************************)
(* ModelosEstatisticos                                                     *)
(***************************************************************************)
calcular_probabilidades_poisson(lambda_casa, lambda_visitante, max_gols) ==
    LET g == Grid(max_gols)
        probabilidades == Lista([k \in 1..Len(g) |->
            Item(g[k][1], g[k][2],
                 RMul(poisson_pmf(g[k][1], lambda_casa), poisson_pmf(g[k][2], lambda_visitante)))])
        total_prob == RSum(Probs(probabilidades))
    IN  SortedByProbDesc(Normalizar(probabilidades, total_prob))

\* a variant without the division by k!
poisson_pmf_longo_sem_fatorial(k, mu) == LongoDe(LPow(mu[1], k), LPow(mu[2], k))

\* poisson_pmf for a long rational rate mu > 0
poisson_pmf_longo(k, mu) ==
    LongoDe(LPow(mu[1], k), LMul(LPow(mu[2], k), LDeInt(Fact(k))))

\* calcular_probabilidades_poisson on long rationals: the same loops,
\* normalisation and sort, for rates whose exact distribution exceeds 32 bits
calcular_probabilidades_poisson_longo(lambda_casa, lambda_visitante, max_gols) ==
    LET g == Grid(max_gols)
        probabilidades == Lista([k \in 1..Len(g) |->
            Item(g[k][1], g[k][2],
                 LongoMul(poisson_pmf_longo(g[k][1], lambda_casa),
                          poisson_pmf_longo(g[k][2], lambda_visitante)))])
        total_prob == LongoSum(Probs(probabilidades))
    IN  SortedByProbDesc(Lista([k \in 1..Len(g) |->
            Item(g[k][1], g[k][2], LongoDiv(probabilidades[k].prob, total_prob))]))

\* a variant that reads the away rate at (0, 1) and the home rate at (1, 0)
tau_taxas_trocadas(x, y, lambda_x, lambda_y, rho) ==
    IF x = 0 /\ y = 0 THEN RSub(One, RMul(RMul(lambda_x, lambda_y), rho))
    ELSE IF x = 0 /\ y = 1 THEN RAdd(One, RMul(lambda_y, rho))
    ELSE IF x = 1 /\ y = 0 THEN RAdd(One, RMul(lambda_x, rho))
    ELSE IF x = 1 /\ y = 1 THEN RSub(One, rho)
    ELSE One

\* a variant that reads the home rate at (0, 1) and at (1, 0)
tau_so_casa(x, y, lambda_x, lambda_y, rho) ==
    IF x = 0 /\ y = 0 THEN RSub(One, RMul(RMul(lambda_x, lambda_y), rho))
    ELSE IF x = 0 /\ y = 1 THEN RAdd(One, RMul(lambda_x, rho))
    ELSE IF x = 1 /\ y = 0 THEN RAdd(One, RMul(lambda_x, rho))
    ELSE IF x = 1 /\ y = 1 THEN RSub(One, rho)
    ELSE One

tau(x, y, lambda_x, lambda_y, rho) ==
    IF x = 0 /\ y = 0 THEN RSub(One, RMul(RMul(lambda_x, lambda_y), rho))
    ELSE IF x = 0 /\ y = 1 THEN RAdd(One, RMul(lambda_x, rho))
    ELSE IF x = 1 /\ y = 0 THEN RAdd(One, RMul(lambda_y, rho))
    ELSE IF x = 1 /\ y = 1 THEN RSub(One, rho)
    ELSE One

calcular_probabilidades_dixon_coles(lambda_casa, lambda_visitante, rho, max_gols) ==
    LET g == Grid(max_gols)
        probabilidades == Lista([k \in 1..Len(g) |->
            Item(g[k][1], g[k][2],
                 RMul(RMul(poisson_pmf(g[k][1], lambda_casa),
                           poisson_pmf(g[k][2], lambda_visitante)),
                      tau(g[k][1], g[k][2], lambda_casa, lambda_visitante, rho)))])
        total_prob == RSum(Probs(probabilidades))
    IN  SortedByProbDesc(Normalizar(probabilidades, total_prob))

\* a Python float division x / y: ZeroDivisionError for y = 0
PyDiv(x, y) ==
    IF IsFinite(y) /\ y[1] = 0 THEN [raises |-> "ZeroDivisionError", val |-> NaN]
    ELSE [raises |-> "", val |-> FDiv(x, y)]

\* Variants of the value calculator that differ from the source in one place;
\* the properties below tell the source's code from each of them.
calcular_valor_esperado_sem_subtrair(probabilidade, odd) ==
    FMul(probabilidade, odd)

calcular_odds_justas_guarda_estrita(probabilidade) ==
    IF RLt(probabilidade, Zero) THEN [raises |-> "", val |-> PosInf]
    ELSE PyDiv(One, probabilidade)

calcular_kelly_divide_por_odd(probabilidade, odd, fracao) ==
    LET q == FSub(One, probabilidade)
        b == FSub(odd, One)
    IN  IF RGt(FMul(b, probabilidade), q)
        THEN LET kelly == PyDiv(FSub(FMul(b, probabilidade), q), odd)
             IN  [raises |-> kelly.raises, val |-> FMul(kelly.val, fracao)]
        ELSE [raises |-> "", val |-> Zero]

calcular_kelly_guarda_fraca(probabilidade, odd, fracao) ==
    LET q == FSub(One, probabilidade)
        b == FSub(odd, One)
    IN  IF RLe(q, FMul(b, probabilidade))
        THEN LET kelly == PyDiv(FSub(FMul(b, probabilidade), q), b)
             IN  [raises |-> kelly.raises, val |-> FMul(kelly.val, fracao)]
        ELSE [raises |-> "", val |-> Zero]

\* a variant without the guard b * probabilidade > q
calcular_kelly_sem_guarda(probabilidade, odd, fracao) ==
    LET q == FSub(One, probabilidade)
        b == FSub(odd, One)
        kelly == PyDiv(FSub(FMul(b, probabilidade), q), b)
    IN  [raises |-> kelly.raises, val |-> FMul(kelly.val, fracao)]

calcular_valor_esperado(probabilidade, odd) ==
    FSub(FMul(probabilidade, odd), One)

calcular_odds_justas(probabilidade) ==
    IF RLe(probabilidade, Zero) THEN [raises |-> "", val |-> PosInf]
    ELSE PyDiv(One, probabilidade)

calcular_kelly(probabilidade, odd, fracao) ==
    LET q == FSub(One, probabilidade)
        b == FSub(odd, One)
    IN  IF RGt(FMul(b, probabilidade), q)
        THEN LET kelly == PyDiv(FSub(FMul(b, probabilidade), q), b)
             IN  [raises |-> kelly.raises, val |-> FMul(kelly.val, fracao)]
        ELSE [raises |-> "", val |-> Zero]

(***************************************************************************)
(* numpy's process-global random generator (np.random): a deterministic    *)
(* generator whose whole state is one value; every draw advances it.  The  *)
(* Mersenne Twister is abstracted by a full-period congruential generator  *)
(* over RngStates; the uniform value of a draw is state/8, in [0, 1).      *)
(***************************************************************************)
RngStates == 0..7

RngNext(s) == (5 * s + 3) % 8

RECURSIVE RngAdvance(_, _)
\* the generator's state after n draws
RngAdvance(s, n) == IF n <= 0 THEN s ELSE RngAdvance(RngNext(s), n - 1)

\* the uniform value the k-th draw from state s returns
Uniform(s, k) == Q(RngAdvance(s, k), 8)

\* p.cumsum(): the partial sums of p
CumSum(p) == Lista([k \in 1..Len(p) |-> RSumRange(p, 1, k)])

\* cdf.searchsorted(u, side='right'), 0-based: the number of entries <= u of the
\* nondecreasing cdf
SearchSortedRight(cdf, u) == Cardinality({k \in 1..Len(cdf) : RLe(cdf[k], u)})

\* np.random.choice(pop_size, size=size, p=p) from generator state s: ValueError
\* for a negative probability or a negative size, else size indices (0-based),
\* one uniform draw each
np_random_choice(pop_size, size, p, s) ==
    IF \E k \in 1..Len(p) : RLt(p[k], Zero)
    THEN [raises |-> "ValueError", idx |-> <<>>, rng |-> s]
    ELSE IF size < 0
    THEN [raises |-> "ValueError", idx |-> <<>>, rng |-> s]
    ELSE LET c == CumSum(p)
             cdf == Lista([k \in 1..Len(c) |-> RDiv(c[k], c[Len(c)])])
         IN  [raises |-> "",
              idx |-> Lista([k \in 1..size |-> SearchSortedRight(cdf, Uniform(s, k))]),
              rng |-> RngAdvance(s, size)]

\* count / n_simulacoes: a Python int division, ZeroDivisionError for n = 0
Proporcao(count, n_simulacoes) == Fl(Q(count, n_simulacoes))

\* simular_monte_carlo called with the global generator in state s; rng is the
\* state it leaves the generator in
\* a variant that answers an empty sample with zero proportions
ContarResultadosAmostraVazia(placares, resultados, n_simulacoes) ==
    IF resultados.raises # ""
    THEN [raises |-> resultados.raises, val |-> <<>>, rng |-> resultados.rng]
    ELSE [raises |-> "",
          val |-> [vitoria_casa |-> Zero, empate |-> Zero, vitoria_visitante |-> Zero,
                   over_2_5 |-> Zero, btts |-> Zero, gol_1_tempo |-> Zero],
          rng |-> resultados.rng]

\* a variant that tallies a drawn scoreline as a home win as well
ContarResultadosEmpateDuplo(placares, resultados, n_simulacoes) ==
    LET N == Len(resultados.idx)
        gc == Lista([k \in 1..N |-> placares[resultados.idx[k] + 1][1]])
        gv == Lista([k \in 1..N |-> placares[resultados.idx[k] + 1][2]])
        moeda == Lista([k \in 1..N |-> Uniform(resultados.rng, k)])
        vitoria_casa == Cardinality({k \in 1..N : gc[k] >= gv[k]})
        empate == Cardinality({k \in 1..N : gc[k] = gv[k]})
        vitoria_visitante == Cardinality({k \in 1..N : gc[k] < gv[k]})
        over_2_5 == Cardinality({k \in 1..N : 2 * (gc[k] + gv[k]) > 5})
        btts == Cardinality({k \in 1..N : gc[k] > 0 /\ gv[k] > 0})
        gol_1_tempo == Cardinality({k \in 1..N :
                            RLt(moeda[k], Q(1, 2)) /\ (gc[k] + gv[k]) > 0})
    IN  IF resultados.raises # ""
        THEN [raises |-> resultados.raises, val |-> <<>>, rng |-> resultados.rng]
        ELSE IF n_simulacoes = 0
        THEN [raises |-> "ZeroDivisionError", val |-> <<>>, rng |-> resultados.rng]
        ELSE [raises |-> "",
              val |-> [vitoria_casa |-> Proporcao(vitoria_casa, n_simulacoes),
                       empate |-> Proporcao(empate, n_simulacoes),
                       vitoria_visitante |-> Proporcao(vitoria_visitante, n_simulacoes),
                       over_2_5 |-> Proporcao(over_2_5, n_simulacoes),
                       btts |-> Proporcao(btts, n_simulacoes),
                       gol_1_tempo |-> Proporcao(gol_1_tempo, n_simulacoes)],
              rng |-> RngAdvance(resultados.rng, N)]

\* a variant that counts every successful coin flip, goals or not
ContarResultadosSoMoeda(placares, resultados, n_simulacoes) ==
    LET N == Len(resultados.idx)
        gc == Lista([k \in 1..N |-> placares[resultados.idx[k] + 1][1]])
        gv == Lista([k \in 1..N |-> placares[resultados.idx[k] + 1][2]])
        moeda == Lista([k \in 1..N |-> Uniform(resultados.rng, k)])
        vitoria_casa == Cardinality({k \in 1..N : gc[k] > gv[k]})
        empate == Cardinality({k \in 1..N : gc[k] = gv[k]})
        vitoria_visitante == Cardinality({k \in 1..N : gc[k] < gv[k]})
        over_2_5 == Cardinality({k \in 1..N : 2 * (gc[k] + gv[k]) > 5})
        btts == Cardinality({k \in 1..N : gc[k] > 0 /\ gv[k] > 0})
        gol_1_tempo == Cardinality({k \in 1..N : RLt(moeda[k], Q(1, 2))})
    IN  IF resultados.raises # ""
        THEN [raises |-> resultados.raises, val |-> <<>>, rng |-> resultados.rng]
        ELSE IF n_simulacoes = 0
        THEN [raises |-> "ZeroDivisionError", val |-> <<>>, rng |-> resultados.rng]
        ELSE [raises |-> "",
              val |-> [vitoria_casa |-> Proporcao(vitoria_casa, n_simulacoes),
                       empate |-> Proporcao(empate, n_simulacoes),
                       vitoria_visitante |-> Proporcao(vitoria_visitante, n_simulacoes),
                       over_2_5 |-> Proporcao(over_2_5, n_simulacoes),
                       btts |-> Proporcao(btts, n_simulacoes),
                       gol_1_tempo |-> Proporcao(gol_1_tempo, n_simulacoes)],
              rng |-> RngAdvance(resultados.rng, N)]

\* the tallies of the drawn scorelines and the six proportions returned
ContarResultados(placares, resultados, n_simulacoes) ==
    LET N == Len(resultados.idx)
        gc == Lista([k \in 1..N |-> placares[resultados.idx[k] + 1][1]])
        gv == Lista([k \in 1..N |-> placares[resultados.idx[k] + 1][2]])
        \* the k-th iteration's np.random.random(), drawn whatever the scoreline
        moeda == Lista([k \in 1..N |-> Uniform(resultados.rng, k)])
        vitoria_casa == Cardinality({k \in 1..N : gc[k] > gv[k]})
        empate == Cardinality({k \in 1..N : gc[k] = gv[k]})
        vitoria_visitante == Cardinality({k \in 1..N : gc[k] < gv[k]})
        over_2_5 == Cardinality({k \in 1..N : 2 * (gc[k] + gv[k]) > 5})
        btts == Cardinality({k \in 1..N : gc[k] > 0 /\ gv[k] > 0})
        gol_1_tempo == Cardinality({k \in 1..N :
                            RLt(moeda[k], Q(1, 2)) /\ (gc[k] + gv[k]) > 0})
    IN  IF resultados.raises # ""
        THEN [raises |-> resultados.raises, val |-> <<>>, rng |-> resultados.rng]
        ELSE IF n_simulacoes = 0
        THEN [raises |-> "ZeroDivisionError", val |-> <<>>, rng |-> resultados.rng]
        ELSE [raises |-> "",
              val |-> [vitoria_casa |-> Proporcao(vitoria_casa, n_simulacoes),
                       empate |-> Proporcao(empate, n_simulacoes),
                       vitoria_visitante |-> Proporcao(vitoria_visitante, n_simulacoes),
                       over_2_5 |-> Proporcao(over_2_5, n_simulacoes),
                       btts |-> Proporcao(btts, n_simulacoes),
                       gol_1_tempo |-> Proporcao(gol_1_tempo, n_simulacoes)],
              rng |-> RngAdvance(resultados.rng, N)]

\* the simulation proper, on the scoreline distribution probs_placares
SimularPlacares(probs_placares, n_simulacoes, s) ==
    ContarResultados(Placares(probs_placares),
                     np_random_choice(Len(probs_placares), n_simulacoes, Probs(probs_placares), s),
                     n_simulacoes)

\* simular_monte_carlo called with the global generator in state s; rng is the
\* state it leaves the generator in
simular_monte_carlo(lambda_casa, lambda_visitante, n_simulacoes, rho, usar_dixon_coles, s) ==
    SimularPlacares(IF usar_dixon_coles
                    THEN calcular_probabilidades_dixon_coles(lambda_casa, lambda_visitante, rho, 5)
                    ELSE calcular_probabilidades_poisson(lambda_casa, lambda_visitante, 5),
                    n_simulacoes, s)

(***************************************************************************)
(* State.  op, args and ret record the last call made and what it          *)
(* returned or raised; np_random is numpy's global generator; the other    *)
(* variables are the fields of one AnalisadorTextoEstatistico.  lembrada   *)
(* is a history variable: the first and the latest simular_monte_carlo     *)
(* call (arguments, generator state at its start, outcome).                *)
(***************************************************************************)
VARIABLES op, args, ret, np_random, lembrada,
          xg, gols_marcados, odds, probabilidades_poisson,
          probabilidades_monte_carlo, recomendacoes

vars == <<op, args, ret, np_random, lembrada, xg, gols_marcados, odds,
          probabilidades_poisson, probabilidades_monte_carlo, recomendacoes>>

analisador == <<xg, gols_marcados, odds, probabilidades_poisson,
                probabilidades_monte_carlo, recomendacoes>>

\* Python's None where a number is expected (no number has denominator -1)
None == <<0, -1>>

\* the truth value of a float-or-None: None and 0.0 are false
Truthy(x) == x # None /\ x[1] # 0

\* AnalisadorTextoEstatistico.__init__
InitAnalisador ==
    /\ xg = [casa |-> None, visitante |-> None]
    /\ gols_marcados = [casa |-> None, visitante |-> None]
    /\ odds = [casa |-> None, empate |-> None, visitante |-> None]
    /\ probabilidades_poisson = <<>>
    /\ probabilidades_monte_carlo = <<>>
    /\ recomendacoes = 0

\* no call made yet, the generator in one of the states of sementes, a fresh analyzer
InitCom(sementes) ==
    /\ op = "none"
    /\ args = <<>>
    /\ ret = <<>>
    /\ np_random \in sementes
    /\ lembrada = <<>>
    /\ InitAnalisador

\* nothing seeds the generator: it starts in any state
Init == InitCom(RngStates)

Retorna(v) == [raises |-> "", val |-> v]

(***************************************************************************)
(* Calls of the static methods of ModelosEstatisticos, over bounded sets   *)
(* of arguments.  The code validates none of them, so the sets hold the    *)
(* arguments the specification calls invalid as well.  The methods are     *)
(* pure: a behaviour of Spec is one call, made from the initial state.     *)
(***************************************************************************)
\* expected-goals rates: a negative one and positive ones.  The rate 0 is left
\* out: what poisson.pmf(k, 0) returns depends on the scipy release.
Lambdas == {Q(-1, 1), Q(1, 2), One, Q(2, 1)}

MaxGols == -1..MaxGolsBound

Rhos == {Q(-1, 1), Q(-1, 10), Zero, One, Q(2, 1)}

\* probabilities 0, 0.05, ..., 1 and 0.8125 (whose product with the odd 1.25
\* rounds to 1), and decimal odds 0, 0.25, ..., 4, as floats
Probabilidades == {F(k, 20) : k \in 0..20} \cup {F(13, 16)}

Odds == {F(k, 4) : k \in 0..16}

Fracoes == {F(k, 4) : k \in 0..4}

\* the rates 1.8 and 1.2 on the default grid (max_gols=5); their distribution is
\* exact only in long rationals
ExemploPoisson ==
    [lambda_casa |-> ParaLongo(Q(9, 5)), lambda_visitante |-> ParaLongo(Q(6, 5)),
     max_gols |-> 5]

\* calcular_probabilidades_poisson(1.8, 1.2): the call of the example
PoissonExemplo ==
    /\ op' = "calcular_probabilidades_poisson(1.8, 1.2)"
    /\ args' = ExemploPoisson
    /\ ret' = Retorna(calcular_probabilidades_poisson_longo(
                          ExemploPoisson.lambda_casa, ExemploPoisson.lambda_visitante,
                          ExemploPoisson.max_gols))
    /\ UNCHANGED <<np_random, lembrada, analisador>>

Poisson(lambda_casa, lambda_visitante, max_gols) ==
    /\ op' = "calcular_probabilidades_poisson"
    /\ args' = [lambda_casa |-> lambda_casa, lambda_visitante |-> lambda_visitante,
                max_gols |-> max_gols]
    /\ ret' = Retorna(calcular_probabilidades_poisson(lambda_casa, lambda_visitante, max_gols))
    /\ UNCHANGED <<np_random, lembrada, analisador>>

DixonColes(lambda_casa, lambda_visitante, rho, max_gols) ==
    /\ op' = "calcular_probabilidades_dixon_coles"
    /\ args' = [lambda_casa |-> lambda_casa, lambda_visitante |-> lambda_visitante,
                rho |-> rho, max_gols |-> max_gols]
    /\ ret' = Retorna(calcular_probabilidades_dixon_coles(lambda_casa, lambda_visitante,
                                                            rho, max_gols))
    /\ UNCHANGED <<np_random, lembrada, analisador>>

ValorEsperado(probabilidade, odd) ==
    /\ op' = "calcular_valor_esperado"
    /\ args' = [probabilidade |-> probabilidade, odd |-> odd]
    /\ ret' = Retorna(calcular_valor_esperado(probabilidade, odd))
    /\ UNCHANGED <<np_random, lembrada, analisador>>

OddsJustas(probabilidade) ==
    /\ op' = "calcular_odds_justas"
    /\ args' = [probabilidade |-> probabilidade]
    /\ ret' = calcular_odds_justas(probabilidade)
    /\ UNCHANGED <<np_random, lembrada, analisador>>

\* calcular_valor_esperado(p, calcular_odds_justas(p)): the value at the fair price
ValorEsperadoOddsJustas(probabilidade) ==
    /\ op' = "calcular_valor_esperado(calcular_odds_justas)"
    /\ args' = [probabilidade |-> probabilidade]
    /\ ret' = LET odd == calcular_odds_justas(probabilidade)
              IN  IF odd.raises # "" THEN odd
                  ELSE Retorna(calcular_valor_esperado(probabilidade, odd.val))
    /\ UNCHANGED <<np_random, lembrada, analisador>>

Kelly(probabilidade, odd, fracao) ==
    /\ op' = "calcular_kelly"
    /\ args' = [probabilidade |-> probabilidade, odd |-> odd, fracao |-> fracao]
    /\ ret' = calcular_kelly(probabilidade, odd, fracao)
    /\ UNCHANGED <<np_random, lembrada, analisador>>

\* a fresh call: none has been made in this behaviour
Ocioso == op = "none"

Next ==
    \/ Ocioso /\ \E lc \in Lambdas, lv \in Lambdas, mg \in MaxGols : Poisson(lc, lv, mg)
    \/ Ocioso /\ PoissonExemplo
    \/ Ocioso /\ \E lc \in Lambdas, lv \in Lambdas, rho \in Rhos, mg \in MaxGols :
                    DixonColes(lc, lv, rho, mg)
    \/ Ocioso /\ \E p \in Probabilidades, o \in Odds : ValorEsperado(p, o)
    \/ Ocioso /\ \E p \in Probabilidades : OddsJustas(p)
    \/ Ocioso /\ \E p \in Probabilidades : ValorEsperadoOddsJustas(p)
    \/ Ocioso /\ \E p \in Probabilidades, o \in Odds, f \in Fracoes : Kelly(p, o, f)

Spec == Init /\ [][Next]_vars

(***************************************************************************)
(* Claims about ModelosEstatisticos, checked under Spec.                   *)
(***************************************************************************)
ChamouDistribuicao ==
    op \in {"calcular_probabilidades_poisson", "calcular_probabilidades_dixon_coles"}

\* the arguments meet the documented precondition: both rates > 0, max_gols >= 0
ParametrosValidos ==
    /\ RGt(args.lambda_casa, Zero)
    /\ RGt(args.lambda_visitante, Zero)
    /\ args.max_gols >= 0

\* one rounding step of the float format at 1: 2^-MantissaBits (2^-53 for float64)
MeioUlp == Q(1, Pow(2, MantissaBits))

\* C1: for every lambda_casa > 0, lambda_visitante > 0 and max_gols >= 0 (and
\* every rho), the probabilities calcular_probabilidades_poisson and
\* calcular_probabilidades_dixon_coles return cover the whole (max_gols+1)^2
\* grid and sum to 1.
C1_SomaUm ==
    (ChamouDistribuicao /\ ParametrosValidos) =>
        /\ ret.raises = ""
        /\ Len(ret.val) = (args.max_gols + 1) * (args.max_gols + 1)
        /\ REq(RSum(Probs(ret.val)), One)

\* C3: for every rho, every cell probability calcular_probabilidades_dixon_coles
\* returns for valid rates lies in [0, 1] (no negative adjusted mass survives).
C3_CelulasEntreZeroEUm ==
    (op = "calcular_probabilidades_dixon_coles" /\ ParametrosValidos) =>
        \A k \in 1..Len(ret.val) :
            RLe(Zero, ret.val[k].prob) /\ RLe(ret.val[k].prob, One)

\* C4: calcular_probabilidades_poisson and calcular_probabilidades_dixon_coles
\* fail with InvalidParameter, returning no distribution, whenever
\* lambda_casa <= 0, lambda_visitante <= 0 or max_gols < 0.
C4_InvalidParameter ==
    (ChamouDistribuicao /\ ~ParametrosValidos) => ret.raises = "InvalidParameter"

\* what the claim's formula gives for calcular_kelly's arguments, in the float
\* arithmetic of the program: b = odd - 1, q = 1 - probabilidade
KellyFormula(probabilidade, odd, fracao) ==
    LET b == FSub(odd, One)
        q == FSub(One, probabilidade)
    IN  IF RGt(FMul(b, probabilidade), q)
        THEN FMul(FDiv(FSub(FMul(b, probabilidade), q), b), fracao)
        ELSE Zero

ChamouKelly(probabilidade, odd, fracao) ==
    /\ op = "calcular_kelly"
    /\ args = [probabilidade |-> probabilidade, odd |-> odd, fracao |-> fracao]

\* x is y up to a few rounding steps of the float format
Aprox(x, y) == RLe(RAbs(RSub(x, y)), RMul(Q(4, 1), MeioUlp))

\* C5 as stated: calcular_kelly returns ((b*p - q)/b)*cap when b*p > q and 0
\* otherwise; calcular_kelly(0.5, 2.0) = 0 and calcular_kelly(0.6, 2.5) = 0.2/1.5.
C5_KellyOriginal ==
    /\ op = "calcular_kelly" =>
          /\ ret.raises = ""
          /\ ret.val = KellyFormula(args.probabilidade, args.odd, args.fracao)
    /\ ChamouKelly(F(1, 2), F(2, 1), One) => ret.val = Zero
    /\ ChamouKelly(F(3, 5), F(5, 2), One) => Aprox(ret.val, Q(2, 15))

\* C5 amended: the same formula and calcular_kelly(0.5, 2.0) = 0, but
\* calcular_kelly(0.6, 2.5) = (1.5*0.6 - 0.4)/1.5 = 0.5/1.5 = 1/3 (up to rounding).
C5_Kelly ==
    /\ op = "calcular_kelly" =>
          /\ ret.raises = ""
          /\ ret.val = KellyFormula(args.probabilidade, args.odd, args.fracao)
    /\ ChamouKelly(F(1, 2), F(2, 1), One) => ret.val = Zero
    /\ ChamouKelly(F(3, 5), F(5, 2), One) => Aprox(ret.val, Q(1, 3))

C5_Witness ==
    /\ ChamouKelly(F(3, 5), F(5, 2), One)
    /\ RGt(ret.val, Zero)

\* C6: for every probability in [0,1], every price >= 0 (price = 1 and price < 1
\* included) and every cap in [0,1], calcular_kelly returns a value in [0,1] and
\* never divides by zero.
C6_KellyEntreZeroEUm ==
    op = "calcular_kelly" =>
        /\ ret.raises = ""
        /\ RLe(Zero, ret.val)
        /\ RLe(ret.val, One)

\* the price-1 bet on a certain event: b = 0 and q = 0, the division is skipped
C6_Witness ==
    /\ op = "calcular_kelly"
    /\ args.odd = One
    /\ args.probabilidade = One
    /\ ret = [raises |-> "", val |-> Zero]

\* C7: calcular_odds_justas returns +infinity for probability 0 and 1/probability
\* for probability > 0, and raises for no probability in [0,1].
C7_OddsJustas ==
    op = "calcular_odds_justas" =>
        /\ ret.raises = ""
        /\ args.probabilidade = Zero => ret.val = PosInf
        /\ RGt(args.probabilidade, Zero) =>
              /\ ret.val = Fl(RDiv(One, args.probabilidade))
              /\ RLe(RAbs(RSub(RMul(ret.val, args.probabilidade), One)), MeioUlp)

C7_Witness ==
    /\ op = "calcular_odds_justas"
    /\ args.probabilidade = Zero
    /\ ret = [raises |-> "", val |-> PosInf]

\* C8 as stated: for every probability > 0 the expected value at the fair price
\* is exactly zero; in particular calcular_valor_esperado(0.5, 2.0) = 0.
C8_ValorEsperadoZeroOriginal ==
    /\ (op = "calcular_valor_esperado(calcular_odds_justas)"
            /\ RGt(args.probabilidade, Zero)) => ret = Retorna(Zero)
    /\ (op = "calcular_valor_esperado" /\ args = [probabilidade |-> F(1, 2), odd |-> F(2, 1)])
          => ret = Retorna(Zero)

\* C8 amended: for every probability > 0 the expected value at the fair price is
\* zero up to one rounding step: it is 0 or -2^-MantissaBits (-2^-53 in float64),
\* never positive, and exactly 0 whenever 1/probability is itself a float; in
\* particular calcular_valor_esperado(0.5, 2.0) = 0.
C8_ValorEsperadoZero ==
    /\ (op = "calcular_valor_esperado(calcular_odds_justas)"
            /\ RGt(args.probabilidade, Zero)) =>
          /\ ret.raises = ""
          /\ ret.val \in {Zero, RNeg(MeioUlp)}
          /\ Fl(RDiv(One, args.probabilidade)) = RDiv(One, args.probabilidade)
                => ret.val = Zero
    /\ (op = "calcular_valor_esperado" /\ args = [probabilidade |-> F(1, 2), odd |-> F(2, 1)])
          => ret = Retorna(Zero)

\* the rounding of 1/probability shows: the value at the fair price is below zero
C8_Witness ==
    /\ op = "calcular_valor_esperado(calcular_odds_justas)"
    /\ RGt(args.probabilidade, Zero)
    /\ ret = Retorna(RNeg(MeioUlp))

\* probabilidades[placar]: the value the dict d holds under the key placar
ProbDe(d, placar) ==
    d[CHOOSE k \in 1..Len(d) : d[k].placar = placar].prob

C15_RhoZero ==
    (/\ op = "calcular_probabilidades_dixon_coles"
     /\ RGt(args.lambda_casa, Zero)
     /\ RGt(args.lambda_visitante, Zero)
     /\ args.rho = Zero) =>
        /\ ret.raises = ""
        /\ ret.val = calcular_probabilidades_poisson(args.lambda_casa,
                                                     args.lambda_visitante, args.max_gols)

\* a call with rho = 0 on a grid that holds the four adjusted cells
C15_Witness ==
    /\ op = "calcular_probabilidades_dixon_coles"
    /\ args = [lambda_casa |-> Q(2, 1), lambda_visitante |-> Q(1, 2), rho |-> Zero,
               max_gols |-> 2]
    /\ Len(ret.val) = 9
    /\ ret.val[1].placar = <<1, 0>>

(***************************************************************************)
(* ModelosEstatisticos.simular_monte_carlo, called again and again on the  *)
(* one process-global generator.  lembrada keeps the first call made and   *)
(* the latest one, each with the generator state it started from.          *)
(***************************************************************************)
LambdasMonteCarlo == {<<One, One>>, <<Q(2, 1), One>>}

\* rho is read only when usar_dixon_coles is set; -0.1 is its default
ArgsMonteCarlo ==
    { [lambda_casa |-> l[1], lambda_visitante |-> l[2], n_simulacoes |-> n,
       rho |-> m[1], usar_dixon_coles |-> m[2]] :
         l \in LambdasMonteCarlo, n \in -1..MaxSimulacoes,
         m \in {<<Q(-1, 10), FALSE>>, <<Q(-1, 10), TRUE>>, <<Q(2, 1), TRUE>>} }

\* simular_monte_carlo for each argument record and generator state, computed once
TabelaMonteCarlo ==
    [a \in ArgsMonteCarlo, s \in RngStates |->
        simular_monte_carlo(a.lambda_casa, a.lambda_visitante, a.n_simulacoes,
                            a.rho, a.usar_dixon_coles, s)]

Chamada(a, s, r) == [args |-> a, inicio |-> s, ret |-> [raises |-> r.raises, val |-> r.val]]

Lembrar(c) == IF lembrada = <<>> THEN <<c>> ELSE <<lembrada[1], c>>

\* a variant whose draws also depend on how many calls were made before
SimularMonteCarloComContador(a) ==
    LET r == TabelaMonteCarlo[a, (np_random + 2 * Len(lembrada)) % 8]
        c == Chamada(a, np_random, r)
    IN  /\ op' = "simular_monte_carlo"
        /\ args' = a
        /\ ret' = c.ret
        /\ np_random' = r.rng
        /\ lembrada' = Lembrar(c)
        /\ UNCHANGED analisador

SimularMonteCarlo(a) ==
    LET r == TabelaMonteCarlo[a, np_random]
        c == Chamada(a, np_random, r)
    IN  /\ op' = "simular_monte_carlo"
        /\ args' = a
        /\ ret' = c.ret
        /\ np_random' = r.rng
        /\ lembrada' = Lembrar(c)
        /\ UNCHANGED analisador

NextMonteCarlo == \E a \in ArgsMonteCarlo : SimularMonteCarlo(a)

SpecMonteCarlo == Init /\ [][NextMonteCarlo]_vars

C11_SemEstadoGlobal ==
    /\ Len(lembrada) >= 1 => np_random = lembrada[Len(lembrada)].inicio
    /\ (Len(lembrada) = 2 /\ lembrada[1].args = lembrada[2].args)
          => lembrada[1].ret = lembrada[2].ret

EntreZeroEUm(x) == RLe(Zero, x) /\ RLe(x, One)

\* C19: for every n_simulacoes >= 1, a simular_monte_carlo call that returns has
\* tallied every sample into exactly one of home win, draw and away win: the
\* three proportions are those of three tallies that add up to n_simulacoes, so
\* they sum to 1 (up to float rounding), and each of the six proportions
\* returned lies in [0, 1].
C19_Proporcoes ==
    (op = "simular_monte_carlo" /\ args.n_simulacoes >= 1 /\ ret.raises = "") =>
        /\ \E c \in 0..args.n_simulacoes, e \in 0..args.n_simulacoes :
              /\ c + e <= args.n_simulacoes
              /\ ret.val.vitoria_casa = Proporcao(c, args.n_simulacoes)
              /\ ret.val.empate = Proporcao(e, args.n_simulacoes)
              /\ ret.val.vitoria_visitante =
                    Proporcao(args.n_simulacoes - c - e, args.n_simulacoes)
        /\ Aprox(FAdd(FAdd(ret.val.vitoria_casa, ret.val.empate),
                      ret.val.vitoria_visitante), One)
        /\ EntreZeroEUm(ret.val.vitoria_casa)
        /\ EntreZeroEUm(ret.val.empate)
        /\ EntreZeroEUm(ret.val.vitoria_visitante)
        /\ EntreZeroEUm(ret.val.over_2_5)
        /\ EntreZeroEUm(ret.val.btts)
        /\ EntreZeroEUm(ret.val.gol_1_tempo)

\* a simulation whose samples fell into more than one of the three outcomes
C19_Witness ==
    /\ op = "simular_monte_carlo"
    /\ args.n_simulacoes >= 2
    /\ ret.raises = ""
    /\ RGt(ret.val.empate, Zero)
    /\ RLt(ret.val.empate, One)

\* the samples of a call with arguments a from generator state s: the goals of
\* each drawn scoreline and the uniform value of its own coin flip
AmostrasDe(a, s) ==
    LET probs_placares ==
            IF a.usar_dixon_coles
            THEN calcular_probabilidades_dixon_coles(a.lambda_casa, a.lambda_visitante,
                                                     a.rho, 5)
            ELSE calcular_probabilidades_poisson(a.lambda_casa, a.lambda_visitante, 5)
        resultados == np_random_choice(Len(probs_placares), a.n_simulacoes,
                                       Probs(probs_placares), s)
    IN  Lista([k \in 1..Len(resultados.idx) |->
            [gols |-> probs_placares[resultados.idx[k] + 1].placar[1]
                      + probs_placares[resultados.idx[k] + 1].placar[2],
             moeda |-> Uniform(resultados.rng, k)]])

\* the samples of each argument record and generator state, computed once
TabelaAmostras == [a \in ArgsMonteCarlo, s \in RngStates |-> AmostrasDe(a, s)]

\* C26: in simular_monte_carlo a sample whose scoreline is 0-0 never counts
\* toward gol_1_tempo, so the gol_1_tempo tally is at most the number of samples
\* with at least one goal; a sample with goals counts exactly when its own coin
\* flip (uniform draw < 0.5) succeeds.
C26_GolPrimeiroTempo ==
    (op = "simular_monte_carlo" /\ ret.raises = "") =>
        LET amostras == TabelaAmostras[args, lembrada[Len(lembrada)].inicio]
            com_gols == {k \in 1..Len(amostras) : amostras[k].gols > 0}
            contam == {k \in com_gols : RLt(amostras[k].moeda, Q(1, 2))}
        IN  /\ Len(amostras) = args.n_simulacoes
            /\ ret.val.gol_1_tempo = Proporcao(Cardinality(contam), args.n_simulacoes)
            /\ RLe(ret.val.gol_1_tempo,
                   Proporcao(Cardinality(com_gols), args.n_simulacoes))

\* a simulation with a 0-0 sample whose coin flip succeeded and was not counted
C26_Witness ==
    /\ op = "simular_monte_carlo"
    /\ ret.raises = ""
    /\ LET amostras == TabelaAmostras[args, lembrada[Len(lembrada)].inicio]
       IN  /\ \E k \in 1..Len(amostras) :
                 amostras[k].gols = 0 /\ RLt(amostras[k].moeda, Q(1, 2))
           /\ \E k \in 1..Len(amostras) : amostras[k].gols > 0
           /\ RLt(ret.val.gol_1_tempo, One)

(***************************************************************************)
(* AnalisadorTextoEstatistico: one analyzer object, its texts loaded and   *)
(* its methods called in any order.  A text is modelled by what the        *)
(* regular expressions of the extraction find in it.                       *)
(***************************************************************************)
\* the recommendations list grows with every scientific text loaded
MaxRecomendacoes == 1

\* the default draw odd, 3.25
OddEmpatePadrao == Q(13, 4)

\* statistical texts: xg is the pair after "xG", gols_marcados groups 2 and 3
\* after "Marcaram", odds the two odds of the form line and the "Odd_Empate"
\* value; <<>> and None where the pattern does not match
TextosEstatisticos ==
    { [xg |-> <<>>, gols_marcados |-> <<>>, odds |-> <<>>],
      [xg |-> <<One, One>>, gols_marcados |-> <<Q(2, 1), One>>,
       odds |-> [casa |-> Q(2, 1), visitante |-> Q(3, 1), empate |-> None]],
      [xg |-> <<Zero, Q(2, 1)>>, gols_marcados |-> <<One, One>>,
       odds |-> [casa |-> Q(3, 2), visitante |-> Q(4, 1), empate |-> Q(3, 1)]],
      [xg |-> <<>>, gols_marcados |-> <<Q(2, 1), One>>, odds |-> <<>>],
      [xg |-> <<>>, gols_marcados |-> <<Zero, One>>, odds |-> <<>>] }

\* rows "2x1 10.0%", "0x0 25.0%" of a Poisson table, and a table whose rows sum to 100%
LinhasForaDeOrdem == <<Item(2, 1, Q(1, 10)), Item(0, 0, Q(1, 4))>>

LinhasCompletas == <<Item(1, 0, Q(1, 2)), Item(0, 0, Q(3, 10)), Item(0, 1, Q(1, 5))>>

\* a Monte Carlo block "45.0% / 25.0% / 28.0% / 50.0% / 50.0%" and one whose
\* three outcomes sum to 100%
MonteCarloArredondado ==
    [vitoria_casa |-> Q(9, 20), empate |-> Q(1, 4), vitoria_visitante |-> Q(7, 25),
     over_2_5 |-> Q(1, 2), btts |-> Q(1, 2)]

MonteCarloExato ==
    [vitoria_casa |-> Q(1, 2), empate |-> Q(1, 4), vitoria_visitante |-> Q(1, 4),
     over_2_5 |-> Q(7, 10), btts |-> Q(2, 5)]

\* scientific texts: vazio for the empty string, xg_medio the "xG medio:" values
\* in order, poisson the rows of the Poisson table (percentages / 100),
\* monte_carlo the Monte Carlo block, recomendacoes the number of entries
TextoCientifico(xs, linhas, mc, n) ==
    [vazio |-> FALSE, xg_medio |-> xs, poisson |-> linhas, monte_carlo |-> mc,
     recomendacoes |-> n]

TextosCientificos ==
    { [vazio |-> TRUE, xg_medio |-> <<>>, poisson |-> <<>>, monte_carlo |-> <<>>,
       recomendacoes |-> 0],
      TextoCientifico(<<Q(2, 1), One>>, <<>>, <<>>, 0),
      TextoCientifico(<<Q(2, 1)>>, <<>>, <<>>, 1),
      TextoCientifico(<<>>, LinhasForaDeOrdem, <<>>, 0),
      TextoCientifico(<<>>, LinhasCompletas, <<>>, 0),
      TextoCientifico(<<>>, <<>>, MonteCarloArredondado, 1),
      TextoCientifico(<<One, One>>, LinhasForaDeOrdem, MonteCarloExato, 0) }

\* d[placar] = p on a dict: a key already held keeps its place, a new one goes last
DictSet(d, placar, p) ==
    IF \E k \in 1..Len(d) : d[k].placar = placar
    THEN Lista([k \in 1..Len(d) |->
                   IF d[k].placar = placar THEN [placar |-> placar, prob |-> p] ELSE d[k]])
    ELSE Append(d, [placar |-> placar, prob |-> p])

RECURSIVE DictUpdate(_, _)
\* for each row in order: self.probabilidades_poisson[(gols_casa, gols_visitante)] = prob
DictUpdate(d, linhas) ==
    IF linhas = <<>> THEN d
    ELSE DictUpdate(DictSet(d, Head(linhas).placar, Head(linhas).prob), Tail(linhas))

\* the classes of scorelines the analyzer sums over; "casa_ou_empate" is a class
\* of no method of the source
NaClasse(classe, gols_casa, gols_visitante) ==
    CASE classe = "casa" -> gols_casa > gols_visitante
      [] classe = "empate" -> gols_casa = gols_visitante
      [] classe = "visitante" -> gols_casa < gols_visitante
      [] classe = "over_2_5" -> 2 * (gols_casa + gols_visitante) > 5
      [] classe = "btts" -> gols_casa > 0 /\ gols_visitante > 0
      [] classe = "casa_ou_empate" -> gols_casa >= gols_visitante

\* the sum of the cells of d whose scoreline is in the class
SomaOnde(d, classe) ==
    RSum(Lista([k \in 1..Len(d) |->
                   IF NaClasse(classe, d[k].placar[1], d[k].placar[2])
                   THEN d[k].prob ELSE Zero]))

\* a variant that prefers the goals-scored average to the xG
LambdaCasaGolsPrimeiro ==
    IF Truthy(gols_marcados.casa) THEN gols_marcados.casa ELSE xg.casa

\* the lambdas calcular_probabilidades_poisson picks: xG when it is there (and
\* not 0.0), else the goals-scored average
LambdaCasa == IF Truthy(xg.casa) THEN xg.casa ELSE gols_marcados.casa
LambdaVisitante == IF Truthy(xg.visitante) THEN xg.visitante ELSE gols_marcados.visitante

\* a variant whose grid stops at 4 goals
self_probabilidades_ate_quatro_gols(lambda_casa, lambda_visitante) ==
    LET g == Grid(4)
        probabilidades == Lista([k \in 1..Len(g) |->
            Item(g[k][1], g[k][2],
                 RMul(poisson_pmf(g[k][1], lambda_casa), poisson_pmf(g[k][2], lambda_visitante)))])
        total_prob == RSum(Probs(probabilidades))
    IN  SortedByProbDesc(Normalizar(probabilidades, total_prob))

\* the body of the analyzer's calcular_probabilidades_poisson for two lambdas:
\* the grid up to 5 goals, normalised, sorted by probability
self_probabilidades_ordenadas(lambda_casa, lambda_visitante) ==
    LET g == Grid(5)
        probabilidades == Lista([k \in 1..Len(g) |->
            Item(g[k][1], g[k][2],
                 RMul(poisson_pmf(g[k][1], lambda_casa), poisson_pmf(g[k][2], lambda_visitante)))])
        total_prob == RSum(Probs(probabilidades))
    IN  SortedByProbDesc(Normalizar(probabilidades, total_prob))

\* the positive rates the texts above can give, and the distribution of each
\* pair, computed once
LambdasDosTextos == {One, Q(2, 1)}

TabelaPoisson ==
    [lc \in LambdasDosTextos, lv \in LambdasDosTextos |-> self_probabilidades_ordenadas(lc, lv)]

\* what calcular_probabilidades_poisson returns, and stores unless it is {}
self_calcular_probabilidades_poisson ==
    IF ~Truthy(LambdaCasa) \/ ~Truthy(LambdaVisitante) THEN <<>>
    ELSE IF <<LambdaCasa, LambdaVisitante>> \in DOMAIN TabelaPoisson
    THEN TabelaPoisson[LambdaCasa, LambdaVisitante]
    ELSE self_probabilidades_ordenadas(LambdaCasa, LambdaVisitante)

\* self.probabilidades_poisson after a call of calcular_probabilidades_poisson
AposCalcularPoisson ==
    IF self_calcular_probabilidades_poisson = <<>> THEN probabilidades_poisson
    ELSE self_calcular_probabilidades_poisson

\* self.probabilidades_poisson after "if both are empty: calcular_probabilidades_poisson()"
\* run on the stored distribution pp
GarantirPoisson(pp) ==
    IF pp = <<>> /\ probabilidades_monte_carlo = <<>> THEN AposCalcularPoisson ELSE pp

\* a variant that counts a drawn scoreline for the home side as well
self_calcular_probabilidades_resultados_empate_duplo(pp) ==
    IF probabilidades_monte_carlo # <<>>
    THEN [Casa |-> probabilidades_monte_carlo.vitoria_casa,
          Empate |-> probabilidades_monte_carlo.empate,
          Visitante |-> probabilidades_monte_carlo.vitoria_visitante]
    ELSE [Casa |-> SomaOnde(pp, "casa_ou_empate"),
          Empate |-> SomaOnde(pp, "empate"),
          Visitante |-> SomaOnde(pp, "visitante")]

\* what calcular_probabilidades_resultados returns with pp stored
self_calcular_probabilidades_resultados(pp) ==
    IF probabilidades_monte_carlo # <<>>
    THEN [Casa |-> probabilidades_monte_carlo.vitoria_casa,
          Empate |-> probabilidades_monte_carlo.empate,
          Visitante |-> probabilidades_monte_carlo.vitoria_visitante]
    ELSE [Casa |-> SomaOnde(pp, "casa"),
          Empate |-> SomaOnde(pp, "empate"),
          Visitante |-> SomaOnde(pp, "visitante")]

\* a variant that returns the Over value for Under as well
self_calcular_probabilidades_over_under_sem_complemento(pp) ==
    LET over == IF probabilidades_monte_carlo # <<>>
                THEN probabilidades_monte_carlo.over_2_5
                ELSE SomaOnde(pp, "over_2_5")
    IN  [Over |-> over, Under |-> over]

\* a variant that counts a scoreline as soon as one side scores
self_calcular_probabilidade_btts_um_lado(pp) ==
    IF probabilidades_monte_carlo # <<>> THEN probabilidades_monte_carlo.btts
    ELSE RSum(Lista([k \in 1..Len(pp) |->
                        IF pp[k].placar[1] > 0 \/ pp[k].placar[2] > 0
                        THEN pp[k].prob ELSE Zero]))

\* a variant that reads the stored Poisson distribution first and the Monte
\* Carlo value only when none is stored
self_calcular_probabilidade_btts_poisson_primeiro(pp) ==
    IF pp # <<>> THEN SomaOnde(pp, "btts")
    ELSE IF probabilidades_monte_carlo # <<>> THEN probabilidades_monte_carlo.btts
    ELSE Zero

self_calcular_probabilidades_over_under(pp) ==
    LET over == IF probabilidades_monte_carlo # <<>>
                THEN probabilidades_monte_carlo.over_2_5
                ELSE SomaOnde(pp, "over_2_5")
    IN  [Over |-> over, Under |-> RSub(One, over)]

self_calcular_probabilidade_btts(pp) ==
    IF probabilidades_monte_carlo # <<>> THEN probabilidades_monte_carlo.btts
    ELSE SomaOnde(pp, "btts")

\* the first 5 items of the stored dict, keyed "<gols_casa>x<gols_visitante>"
PlacaresProvaveis(pp) == SubSeq(pp, 1, IF Len(pp) < 5 THEN Len(pp) ELSE 5)

CarregarTexto(texto) ==
    /\ op' = "carregar_texto"
    /\ args' = texto
    /\ ret' = Retorna(TRUE)
    /\ odds' = IF texto.odds = <<>> THEN odds
               ELSE [casa |-> texto.odds.casa,
                     visitante |-> texto.odds.visitante,
                     empate |-> IF texto.odds.empate = None THEN OddEmpatePadrao
                                ELSE texto.odds.empate]
    /\ xg' = IF texto.xg = <<>> THEN xg
             ELSE [casa |-> texto.xg[1], visitante |-> texto.xg[2]]
    /\ gols_marcados' = IF texto.gols_marcados = <<>> THEN gols_marcados
                        ELSE [casa |-> texto.gols_marcados[1],
                              visitante |-> texto.gols_marcados[2]]
    /\ UNCHANGED <<np_random, lembrada, probabilidades_poisson,
                   probabilidades_monte_carlo, recomendacoes>>

CarregarTextoCientifico(texto) ==
    /\ recomendacoes + texto.recomendacoes <= MaxRecomendacoes
    /\ op' = "carregar_texto_cientifico"
    /\ args' = texto
    /\ ret' = Retorna(TRUE)
    /\ IF texto.vazio
       THEN UNCHANGED <<xg, probabilidades_poisson, probabilidades_monte_carlo, recomendacoes>>
       ELSE /\ xg' = [casa |-> IF Len(texto.xg_medio) >= 1 /\ ~Truthy(xg.casa)
                               THEN texto.xg_medio[1] ELSE xg.casa,
                      visitante |-> IF /\ Len(texto.xg_medio) >= 1
                                       /\ ~Truthy(xg.visitante)
                                       /\ Len(texto.xg_medio) > 1
                                    THEN texto.xg_medio[2] ELSE xg.visitante]
            /\ probabilidades_poisson' = DictUpdate(probabilidades_poisson, texto.poisson)
            /\ probabilidades_monte_carlo' =
                  IF texto.monte_carlo = <<>> THEN probabilidades_monte_carlo
                  ELSE texto.monte_carlo
            /\ recomendacoes' = recomendacoes + texto.recomendacoes
    /\ UNCHANGED <<np_random, lembrada, gols_marcados, odds>>

CalcularProbabilidadesPoisson ==
    /\ op' = "self.calcular_probabilidades_poisson"
    /\ args' = <<>>
    /\ ret' = Retorna(self_calcular_probabilidades_poisson)
    /\ probabilidades_poisson' = AposCalcularPoisson
    /\ UNCHANGED <<np_random, lembrada, xg, gols_marcados, odds,
                   probabilidades_monte_carlo, recomendacoes>>

CalcularProbabilidadesResultados ==
    /\ op' = "self.calcular_probabilidades_resultados"
    /\ args' = <<>>
    /\ probabilidades_poisson' = GarantirPoisson(probabilidades_poisson)
    /\ ret' = Retorna(self_calcular_probabilidades_resultados(
                          GarantirPoisson(probabilidades_poisson)))
    /\ UNCHANGED <<np_random, lembrada, xg, gols_marcados, odds,
                   probabilidades_monte_carlo, recomendacoes>>

CalcularProbabilidadesOverUnder ==
    /\ op' = "self.calcular_probabilidades_over_under"
    /\ args' = <<>>
    /\ probabilidades_poisson' = GarantirPoisson(probabilidades_poisson)
    /\ ret' = Retorna(self_calcular_probabilidades_over_under(
                          GarantirPoisson(probabilidades_poisson)))
    /\ UNCHANGED <<np_random, lembrada, xg, gols_marcados, odds,
                   probabilidades_monte_carlo, recomendacoes>>

CalcularProbabilidadeBtts ==
    /\ op' = "self.calcular_probabilidade_btts"
    /\ args' = <<>>
    /\ probabilidades_poisson' = GarantirPoisson(probabilidades_poisson)
    /\ ret' = Retorna(self_calcular_probabilidade_btts(
                          GarantirPoisson(probabilidades_poisson)))
    /\ UNCHANGED <<np_random, lembrada, xg, gols_marcados, odds,
                   probabilidades_monte_carlo, recomendacoes>>

\* gerar_analise_completa: the distribution is computed when none is stored, then
\* every part of the analysis is read from the stored one; ret carries the
\* probabilities of the analysis and its list of most likely scorelines
GerarAnaliseCompleta ==
    /\ op' = "self.gerar_analise_completa"
    /\ args' = <<>>
    /\ probabilidades_poisson' =
          IF probabilidades_poisson = <<>> THEN AposCalcularPoisson
          ELSE probabilidades_poisson
    /\ ret' = Retorna(
          [probabilidades_resultados |->
               self_calcular_probabilidades_resultados(probabilidades_poisson'),
           probabilidades_over_under |->
               self_calcular_probabilidades_over_under(probabilidades_poisson'),
           probabilidade_btts |->
               self_calcular_probabilidade_btts(probabilidades_poisson'),
           placares_provaveis |-> PlacaresProvaveis(probabilidades_poisson')])
    /\ UNCHANGED <<np_random, lembrada, xg, gols_marcados, odds,
                   probabilidades_monte_carlo, recomendacoes>>

\* one entry of the dict calcular_valor_esperado builds: absent (None) when the
\* odd is None or 0.0
ValorEsperadoDe(probabilidade, odd) ==
    IF Truthy(odd) THEN RSub(RMul(probabilidade, odd), One) ELSE None

\* a variant that adds the stake instead of subtracting it
self_calcular_valor_esperado_mais_um(probabilidades) ==
    [Casa |-> IF Truthy(odds.casa)
              THEN RAdd(RMul(probabilidades.Casa, odds.casa), One) ELSE None,
     Empate |-> IF Truthy(odds.empate)
                THEN RAdd(RMul(probabilidades.Empate, odds.empate), One) ELSE None,
     Visitante |-> IF Truthy(odds.visitante)
                   THEN RAdd(RMul(probabilidades.Visitante, odds.visitante), One)
                   ELSE None]

\* what the analyzer's calcular_valor_esperado returns, probabilidades being what
\* its call of calcular_probabilidades_resultados returned; self.odds always
\* holds its three keys, so the dict is never falsy
self_calcular_valor_esperado(probabilidades) ==
    [Casa |-> ValorEsperadoDe(probabilidades.Casa, odds.casa),
     Empate |-> ValorEsperadoDe(probabilidades.Empate, odds.empate),
     Visitante |-> ValorEsperadoDe(probabilidades.Visitante, odds.visitante)]

\* the keys of the outcome dicts, in insertion order
Resultados == <<"Casa", "Empate", "Visitante">>

\* max(ev.items(), key=lambda x: x[1]): the first entry no other one exceeds;
\* <<>> for an empty dict
MelhorEv(ev) ==
    LET presentes == SelectSeq(Resultados, LAMBDA n : ev[n] # None)
        maximos == {k \in 1..Len(presentes) :
                       \A j \in 1..Len(presentes) : ~RGt(ev[presentes[j]], ev[presentes[k]])}
    IN  IF maximos = {} THEN <<>>
        ELSE LET k == CHOOSE m \in maximos : \A j \in maximos : m <= j
             IN  <<presentes[k], ev[presentes[k]]>>

\* what gerar_recomendacoes returns with pp stored, ev, prob_over_under and
\* prob_btts being what its calls returned: the entries read from the scientific
\* text when there are some, else the entries it builds (<<>> or "" for one it
\* leaves out)
self_gerar_recomendacoes(ev, prob_over_under, prob_btts, pp) ==
    IF recomendacoes > 0
    THEN [extraidas |-> recomendacoes, melhor_ev |-> <<>>, over_under |-> "",
          btts |-> "", placar_mais_provavel |-> <<>>]
    ELSE [extraidas |-> 0,
          melhor_ev |-> IF MelhorEv(ev) # <<>> /\ RGt(MelhorEv(ev)[2], Zero)
                        THEN MelhorEv(ev) ELSE <<>>,
          over_under |-> IF RGt(prob_over_under.Over, Q(3, 5)) THEN "Over 2.5"
                         ELSE IF RGt(prob_over_under.Under, Q(3, 5)) THEN "Under 2.5"
                         ELSE "",
          btts |-> IF RGt(prob_btts, Q(3, 5)) THEN "Sim"
                   ELSE IF RGt(RSub(One, prob_btts), Q(3, 5)) THEN "Nao"
                   ELSE "",
          placar_mais_provavel |-> IF pp # <<>> THEN pp[1] ELSE <<>>]

\* the lines "<resultado> -> odds justas ate 1/p" of gerar_texto_analise_cientifica,
\* one for each entry of valor_esperado above 0; 1/p raises for p = 0
LinhasOddsJustas(probabilidades, valor_esperado) ==
    LET comEv == SelectSeq(Resultados,
                     LAMBDA n : valor_esperado[n] # None /\ RGt(valor_esperado[n], Zero))
    IN  IF \E k \in 1..Len(comEv) : probabilidades[comEv[k]] = Zero
        THEN [raises |-> "ZeroDivisionError", val |-> <<>>]
        ELSE Retorna(Lista([k \in 1..Len(comEv) |->
                 [resultado |-> comEv[k],
                  odds_justas |-> RDiv(One, probabilidades[comEv[k]])]]))

\* gerar_recomendacoes: with no entries from a scientific text, the first call it
\* makes computes and stores the distribution when nothing is held
GerarRecomendacoes ==
    /\ op' = "self.gerar_recomendacoes"
    /\ args' = <<>>
    /\ probabilidades_poisson' =
          IF recomendacoes > 0 THEN probabilidades_poisson
          ELSE GarantirPoisson(probabilidades_poisson)
    /\ \E probabilidades \in {self_calcular_probabilidades_resultados(probabilidades_poisson')},
          prob_over_under \in {self_calcular_probabilidades_over_under(probabilidades_poisson')},
          prob_btts \in {self_calcular_probabilidade_btts(probabilidades_poisson')} :
          \E ev \in {self_calcular_valor_esperado(probabilidades)} :
              ret' = Retorna(self_gerar_recomendacoes(ev, prob_over_under, prob_btts,
                                                      probabilidades_poisson'))
    /\ UNCHANGED <<np_random, lembrada, xg, gols_marcados, odds,
                   probabilidades_monte_carlo, recomendacoes>>

\* gerar_texto_analise_cientifica: the analysis of gerar_analise_completa, then the
\* text; ret carries the outcome probabilities, the expected values and the
\* fair-odds lines of the text
GerarTextoAnaliseCientifica ==
    /\ op' = "self.gerar_texto_analise_cientifica"
    /\ args' = <<>>
    /\ probabilidades_poisson' =
          IF probabilidades_poisson = <<>> THEN AposCalcularPoisson
          ELSE probabilidades_poisson
    /\ \E probabilidades_resultados \in
              {self_calcular_probabilidades_resultados(probabilidades_poisson')} :
          \E valor_esperado \in {self_calcular_valor_esperado(probabilidades_resultados)} :
              \E linhas \in {LinhasOddsJustas(probabilidades_resultados, valor_esperado)} :
                  ret' = [raises |-> linhas.raises,
                          val |-> [probabilidades_resultados |-> probabilidades_resultados,
                                   valor_esperado |-> valor_esperado,
                                   odds_justas |-> linhas.val]]
    /\ UNCHANGED <<np_random, lembrada, xg, gols_marcados, odds,
                   probabilidades_monte_carlo, recomendacoes>>

\* the static method is pure: it is called here before the analyzer is used
NextAnalisador ==
    \/ \E texto \in TextosEstatisticos : CarregarTexto(texto)
    \/ \E texto \in TextosCientificos : CarregarTextoCientifico(texto)
    \/ CalcularProbabilidadesPoisson
    \/ CalcularProbabilidadesResultados
    \/ CalcularProbabilidadesOverUnder
    \/ CalcularProbabilidadeBtts
    \/ GerarAnaliseCompleta
    \/ GerarRecomendacoes
    \/ GerarTextoAnaliseCientifica
    \/ Ocioso /\ \E lc \in LambdasDosTextos, lv \in LambdasDosTextos, mg \in 0..MaxGolsBound :
                    Poisson(lc, lv, mg)

\* no method of the analyzer reads the generator: one initial state of it is followed
SpecAnalisador == InitCom({0}) /\ [][NextAnalisador]_vars

(***************************************************************************)
(* Claims about the analyzer, checked under SpecAnalisador.                *)
(***************************************************************************)
\* d is a valid distribution: some cells, none negative, summing to 1
DistribuicaoValida(d) ==
    /\ d # <<>>
    /\ \A k \in 1..Len(d) : RLe(Zero, d[k].prob)
    /\ REq(RSum(Probs(d)), One)

SomaResultados(r) == RAdd(RAdd(r.Casa, r.Empate), r.Visitante)

\* C2 as stated: for every valid stored distribution, the outcome summary
\* calcular_probabilidades_resultados returns has Casa + Empate + Visitante = 1.
C2_ResultadosSomamUmOriginal ==
    (op = "self.calcular_probabilidades_resultados"
        /\ DistribuicaoValida(probabilidades_poisson))
        => REq(SomaResultados(ret.val), One)

\* C2 amended: when the analyzer holds no Monte Carlo probabilities, the summary
\* of a valid stored distribution has Casa + Empate + Visitante = 1, each cell
\* counted in exactly one class; when it holds Monte Carlo probabilities the
\* summary is those three values as read from the text, whatever they sum to.
C2_ResultadosSomamUm ==
    op = "self.calcular_probabilidades_resultados" =>
        /\ (probabilidades_monte_carlo = <<>> /\ DistribuicaoValida(probabilidades_poisson))
              => /\ REq(SomaResultados(ret.val), One)
                 /\ \A c \in {ret.val.Casa, ret.val.Empate, ret.val.Visitante} :
                        RLe(Zero, c) /\ RLe(c, One)
        /\ probabilidades_monte_carlo # <<>>
              => ret.val = [Casa |-> probabilidades_monte_carlo.vitoria_casa,
                            Empate |-> probabilidades_monte_carlo.empate,
                            Visitante |-> probabilidades_monte_carlo.vitoria_visitante]

\* the summary of a computed 6x6 distribution, no Monte Carlo probabilities held
C2_Witness ==
    /\ op = "self.calcular_probabilidades_resultados"
    /\ probabilidades_monte_carlo = <<>>
    /\ DistribuicaoValida(probabilidades_poisson)
    /\ Len(probabilidades_poisson) = 36
    /\ RGt(ret.val.Casa, ret.val.Visitante)
    /\ RGt(ret.val.Empate, Zero)

GolsTotais(item) == item.placar[1] + item.placar[2]

\* a ranks before b: higher probability; at equal probability, in the order
\* "total_de_gols", lower combined goals, then lower home goals; in the order
\* "grade" (that of the grid loops), lower home goals, then lower away goals
Antes(ordem, a, b) ==
    \/ RGt(a.prob, b.prob)
    \/ /\ a.prob = b.prob
       /\ IF ordem = "total_de_gols"
          THEN \/ GolsTotais(a) < GolsTotais(b)
               \/ GolsTotais(a) = GolsTotais(b) /\ a.placar[1] < b.placar[1]
          ELSE \/ a.placar[1] < b.placar[1]
               \/ a.placar[1] = b.placar[1] /\ a.placar[2] < b.placar[2]

Ordenado(d, ordem) == \A k \in 1..(Len(d) - 1) : Antes(ordem, d[k], d[k + 1])

Menor(m, n) == IF m < n THEN m ELSE n

\* top is the first cells of the ranking of d in the order
PrimeirosDoRanking(top, d, ordem) ==
    /\ Ordenado(top, ordem)
    /\ \A k \in 1..Len(top) : \E m \in 1..Len(d) : d[m] = top[k]
    /\ \A m \in 1..Len(d) :
          \/ \E k \in 1..Len(top) : top[k] = d[m]
          \/ \A k \in 1..Len(top) : Antes(ordem, top[k], d[m])

C12_DegeneradaRejeitada ==
    /\ op = "self.calcular_probabilidades_poisson" =>
          \/ ret.raises = "InvalidParameter"
          \/ \E k \in 1..Len(ret.val) : RGt(ret.val[k].prob, Zero)
    /\ op = "self.calcular_probabilidades_resultados" =>
          \/ ret.raises = "InvalidParameter"
          \/ ret.val # [Casa |-> Zero, Empate |-> Zero, Visitante |-> Zero]

\* the sums of the cells of d with more than n goals in all, and with at most n
SomaAcimaDe(d, n) ==
    RSum(Lista([k \in 1..Len(d) |-> IF GolsTotais(d[k]) > n THEN d[k].prob ELSE Zero]))

SomaAte(d, n) ==
    RSum(Lista([k \in 1..Len(d) |-> IF GolsTotais(d[k]) <= n THEN d[k].prob ELSE Zero]))

\* C17 as stated: calcular_probabilidades_over_under returns Over 2.5 = the sum
\* of the cells with home + away > 2.5 and Under 2.5 = the sum of the cells with
\* home + away <= 2.5 of the stored distribution, and the two sum to 1.
C17_OverUnderOriginal ==
    op = "self.calcular_probabilidades_over_under" =>
        /\ ret.val.Over = SomaAcimaDe(probabilidades_poisson, 2)
        /\ ret.val.Under = SomaAte(probabilidades_poisson, 2)
        /\ REq(RAdd(ret.val.Over, ret.val.Under), One)

\* C17 amended: the two values calcular_probabilidades_over_under returns always
\* sum to 1, Under 2.5 being 1 - Over 2.5.  With no Monte Carlo probabilities
\* held, Over 2.5 is the sum of the cells with home + away > 2.5 of the stored
\* distribution, and Under 2.5 is the sum of its cells with home + away <= 2.5
\* when that distribution sums to 1.  With Monte Carlo probabilities held, Over
\* 2.5 is their over_2_5 value, whatever the stored distribution.
C17_OverUnder ==
    op = "self.calcular_probabilidades_over_under" =>
        /\ ret.raises = ""
        /\ REq(RAdd(ret.val.Over, ret.val.Under), One)
        /\ probabilidades_monte_carlo = <<>> =>
              /\ ret.val.Over = SomaAcimaDe(probabilidades_poisson, 2)
              /\ REq(RSum(Probs(probabilidades_poisson)), One)
                    => ret.val.Under = SomaAte(probabilidades_poisson, 2)
        /\ probabilidades_monte_carlo # <<>> =>
              ret.val.Over = probabilidades_monte_carlo.over_2_5

\* the method has summed a computed 36-cell distribution with mass on both sides
C17_Witness ==
    /\ op = "self.calcular_probabilidades_over_under"
    /\ probabilidades_monte_carlo = <<>>
    /\ Len(probabilidades_poisson) = 36
    /\ RGt(ret.val.Over, Zero)
    /\ ret.val.Under = SomaAte(probabilidades_poisson, 2)

\* the sum of the cells of d in which both sides score
SomaAmbasMarcam(d) ==
    RSum(Lista([k \in 1..Len(d) |->
                   IF d[k].placar[1] >= 1 /\ d[k].placar[2] >= 1 THEN d[k].prob ELSE Zero]))

\* C18 as stated: calcular_probabilidade_btts returns the sum of the
\* probabilities of exactly the cells with home > 0 and away > 0 of the stored
\* scoreline distribution.
C18_BttsOriginal ==
    op = "self.calcular_probabilidade_btts" =>
        ret.val = SomaAmbasMarcam(probabilidades_poisson)

\* C18 amended: with no Monte Carlo probabilities held, calcular_probabilidade_btts
\* returns the sum of exactly the cells with home > 0 and away > 0 of the stored
\* distribution; with Monte Carlo probabilities held it returns their btts value,
\* whatever the stored distribution.
C18_Btts ==
    op = "self.calcular_probabilidade_btts" =>
        /\ ret.raises = ""
        /\ probabilidades_monte_carlo = <<>> =>
              ret.val = SomaAmbasMarcam(probabilidades_poisson)
        /\ probabilidades_monte_carlo # <<>> =>
              ret.val = probabilidades_monte_carlo.btts

\* the method has summed a computed 36-cell distribution
C18_Witness ==
    /\ op = "self.calcular_probabilidade_btts"
    /\ probabilidades_monte_carlo = <<>>
    /\ Len(probabilidades_poisson) = 36
    /\ RGt(ret.val, Zero)
    /\ RLt(ret.val, One)

\* C20: calcular_probabilidades_resultados, calcular_probabilidades_over_under
\* and calcular_probabilidade_btts are pure: a call of one of them leaves every
\* field of the analyzer, the stored distribution included, unchanged.
C20_AgregacoesPuras ==
    [][op' \in {"self.calcular_probabilidades_resultados",
                "self.calcular_probabilidades_over_under",
                "self.calcular_probabilidade_btts"}
          => UNCHANGED analisador]_vars

\* the sum of the cells of a long-rational distribution d whose scoreline is in
\* the class
LongoSomaOnde(d, classe) ==
    LongoSum(Lista([k \in 1..Len(d) |->
                IF NaClasse(classe, d[k].placar[1], d[k].placar[2])
                THEN d[k].prob ELSE ParaLongo(Zero)]))

\* C16: for calcular_probabilidades_poisson(lambda_casa=1.8, lambda_visitante=1.2,
\* max_gols=5) one cell has a probability above every other, that cell is (1, 1)
\* or (1, 0), and in the outcome summary of the distribution (the sums of
\* calcular_probabilidades_resultados) the home win is above the away win.
C16_Exemplo ==
    op = "calcular_probabilidades_poisson(1.8, 1.2)" =>
        /\ ret.raises = ""
        /\ Len(ret.val) = 36
        /\ ret.val[1].placar \in {<<1, 1>>, <<1, 0>>}
        /\ \A k \in 2..Len(ret.val) : RLt(ret.val[k].prob, ret.val[1].prob)
        /\ RGt(LongoSomaOnde(ret.val, "casa"), LongoSomaOnde(ret.val, "visitante"))

\* the example has been computed: 36 cells that sum to 1, (1, 1) first
C16_Witness ==
    /\ op = "calcular_probabilidades_poisson(1.8, 1.2)"
    /\ args.max_gols = 5
    /\ ret.val[1].placar = <<1, 1>>
    /\ LongoEq(LongoSum(Probs(ret.val)), ParaLongo(One))


\* C21: after any sequence of carregar_texto, carregar_texto_cientifico and
\* calcular_probabilidades_poisson calls the stored probabilidades_poisson is
\* empty or a full distribution (all 36 scorelines) whose probabilities sum to 1.
C21_VaziaOuCompleta ==
    \/ probabilidades_poisson = <<>>
    \/ /\ Len(probabilidades_poisson) = Len(Grid(5))
       /\ REq(RSum(Probs(probabilidades_poisson)), One)


\* C22: whenever the analyzer holds Monte Carlo probabilities,
\* calcular_probabilidades_resultados, calcular_probabilidades_over_under and
\* calcular_probabilidade_btts return the Monte Carlo values, whether or not a
\* Poisson distribution is stored as well; the sums over the stored Poisson
\* distribution are returned when no Monte Carlo probabilities are held.
C22_MonteCarloPrevalece ==
    LET mc == probabilidades_monte_carlo
        pp == probabilidades_poisson
    IN  /\ op = "self.calcular_probabilidades_resultados" =>
              IF mc # <<>>
              THEN ret.val = [Casa |-> mc.vitoria_casa, Empate |-> mc.empate,
                              Visitante |-> mc.vitoria_visitante]
              ELSE ret.val = [Casa |-> SomaOnde(pp, "casa"), Empate |-> SomaOnde(pp, "empate"),
                              Visitante |-> SomaOnde(pp, "visitante")]
        /\ op = "self.calcular_probabilidades_over_under" =>
              IF mc # <<>>
              THEN ret.val = [Over |-> mc.over_2_5, Under |-> RSub(One, mc.over_2_5)]
              ELSE ret.val = [Over |-> SomaAcimaDe(pp, 2), Under |-> RSub(One, SomaAcimaDe(pp, 2))]
        /\ op = "self.calcular_probabilidade_btts" =>
              IF mc # <<>> THEN ret.val = mc.btts ELSE ret.val = SomaAmbasMarcam(pp)

\* calcular_probabilidade_btts has answered with the Monte Carlo value while a
\* Poisson distribution with another sum was stored
C22_Witness ==
    /\ op = "self.calcular_probabilidade_btts"
    /\ probabilidades_monte_carlo # <<>>
    /\ probabilidades_poisson # <<>>
    /\ ret.val = probabilidades_monte_carlo.btts
    /\ ~REq(ret.val, SomaAmbasMarcam(probabilidades_poisson))


\* C23: after any sequence of carregar_texto, carregar_texto_cientifico and
\* calcular_probabilidades_poisson calls, the scoreline gerar_recomendacoes
\* reports as the most probable exact scoreline has a probability no smaller
\* than that of every other stored scoreline.
C23_PlacarMaisProvavel ==
    (op = "self.gerar_recomendacoes" /\ ret.val.placar_mais_provavel # <<>>)
        => \A k \in 1..Len(probabilidades_poisson) :
               RLe(probabilidades_poisson[k].prob, ret.val.placar_mais_provavel.prob)


\* C29: gerar_texto_analise_cientifica never divides by zero when it prints fair
\* odds: a fair-odds line is produced for an outcome exactly when its expected
\* value is above 0, and whenever the expected value computed from a positive
\* odd is above 0 the probability of the outcome is above 0.
C29_OddsJustasSemDivisaoPorZero ==
    op = "self.gerar_texto_analise_cientifica" =>
        /\ ret.raises = ""
        /\ \A k \in 1..Len(Resultados) :
               LET n == Resultados[k]
                   ev == ret.val.valor_esperado[n]
                   comLinha == \E j \in 1..Len(ret.val.odds_justas) :
                                   ret.val.odds_justas[j].resultado = n
               IN  /\ comLinha <=> (ev # None /\ RGt(ev, Zero))
                   /\ (ev # None /\ RGt(ev, Zero)) =>
                          RGt(ret.val.probabilidades_resultados[n], Zero)

\* a fair-odds line has been produced from Monte Carlo probabilities
C29_Witness ==
    /\ op = "self.gerar_texto_analise_cientifica"
    /\ probabilidades_monte_carlo # <<>>
    /\ ret.raises = ""
    /\ ret.val.odds_justas # <<>>


\* the rate of a side as C28 states it (the xG when one is held), and as the
\* amended statement has it (the xG when one other than 0.0 is held)
TaxaComXgGuardado(x, gols) == IF x # None THEN x ELSE gols

TaxaComXgNaoNulo(x, gols) == IF x # None /\ x # Zero THEN x ELSE gols

\* the sorted distribution of the analyzer for two rates
DistribuicaoDe(lambda_casa, lambda_visitante) ==
    IF <<lambda_casa, lambda_visitante>> \in DOMAIN TabelaPoisson
    THEN TabelaPoisson[lambda_casa, lambda_visitante]
    ELSE self_probabilidades_ordenadas(lambda_casa, lambda_visitante)

TabelaPoissonModelos ==
    [lc \in LambdasDosTextos, lv \in LambdasDosTextos |->
        calcular_probabilidades_poisson(lc, lv, 5)]

\* C27: for the same pair of positive rates, the analyzer's
\* calcular_probabilidades_poisson stores and returns the same distribution, in
\* the same order, as ModelosEstatisticos.calcular_probabilidades_poisson with
\* max_gols=5.
C27_MesmaDistribuicao ==
    (op = "self.calcular_probabilidades_poisson" /\ ret.val # <<>>) =>
        /\ ret.val = IF <<LambdaCasa, LambdaVisitante>> \in DOMAIN TabelaPoissonModelos
                     THEN TabelaPoissonModelos[LambdaCasa, LambdaVisitante]
                     ELSE calcular_probabilidades_poisson(LambdaCasa, LambdaVisitante, 5)
        /\ probabilidades_poisson = ret.val

\* the analyzer has computed the distribution of two different rates
C27_Witness ==
    /\ op = "self.calcular_probabilidades_poisson"
    /\ ret.val # <<>>
    /\ Len(ret.val) = Len(Grid(5))
    /\ LambdaCasa # LambdaVisitante


\* calcular_kelly has been called with a probability in [0, 1], a price above 0
\* and a cap above 0
ChamouKellyValido ==
    /\ op = "calcular_kelly"
    /\ RLe(Zero, args.probabilidade) /\ RLe(args.probabilidade, One)
    /\ RGt(args.odd, Zero)
    /\ RGt(args.fracao, Zero)

\* C24 as stated: for every probability in [0,1], price > 0 and cap > 0,
\* calcular_kelly returns a strictly positive stake if and only if
\* calcular_valor_esperado(probability, price) > 0.
C24_KellySeESoSeEvPositivoOriginal ==
    ChamouKellyValido =>
        /\ ret.raises = ""
        /\ RGt(ret.val, Zero)
              <=> RGt(calcular_valor_esperado(args.probabilidade, args.odd), Zero)

\* the rounding allowance for a price: 8 rounding steps at max(1, odd)
Tolerancia(odd) ==
    RMul(RMul(Q(8, 1), MeioUlp), IF RGt(odd, One) THEN odd ELSE One)

\* C24, amended: for every probability in [0,1], price > 0 and cap > 0, a
\* strictly positive stake of calcular_kelly and a positive
\* calcular_valor_esperado(probability, price) go together up to rounding: a
\* positive stake means an expected value of at least -Tolerancia(price), and
\* an expected value above Tolerancia(price) means a positive stake.
C24_KellySeESoSeEvPositivo ==
    ChamouKellyValido =>
        LET ev == calcular_valor_esperado(args.probabilidade, args.odd)
        IN  /\ ret.raises = ""
            /\ RGt(ret.val, Zero) => RLe(RNeg(Tolerancia(args.odd)), ev)
            /\ RGt(ev, Tolerancia(args.odd)) => RGt(ret.val, Zero)

\* a stake above 0 has been returned for a bet whose expected value rounds to 0
C24_Witness ==
    /\ ChamouKellyValido
    /\ ret.raises = ""
    /\ RGt(ret.val, Zero)
    /\ calcular_valor_esperado(args.probabilidade, args.odd) = Zero


\* the correction factor of the cell (i, j) as C25 gives it, for the rates of
\* the home and the away side
FatorDeCorrecao(i, j, lambda_home, lambda_away, rho) ==
    CASE i = 0 /\ j = 0 -> RSub(One, RMul(RMul(lambda_home, lambda_away), rho))
      [] i = 0 /\ j = 1 -> RAdd(One, RMul(lambda_home, rho))
      [] i = 1 /\ j = 0 -> RAdd(One, RMul(lambda_away, rho))
      [] i = 1 /\ j = 1 -> RSub(One, rho)
      [] OTHER -> One

\* the independent product of the cell (i, j) times its correction factor
PesoAjustado(i, j, lambda_home, lambda_away, rho) ==
    RMul(RMul(poisson_pmf(i, lambda_home), poisson_pmf(j, lambda_away)),
         FatorDeCorrecao(i, j, lambda_home, lambda_away, rho))

\* the sum of the adjusted products over the grid
PesoTotal(lambda_home, lambda_away, rho, max_gols) ==
    RSum(Lista([k \in 1..Len(Grid(max_gols)) |->
                   PesoAjustado(Grid(max_gols)[k][1], Grid(max_gols)[k][2],
                                lambda_home, lambda_away, rho)]))

\* C25: in calcular_probabilidades_dixon_coles the correction factor of the
\* cell (i, j) is 1 - lambda_home*lambda_away*rho at (0,0), 1 + lambda_home*rho
\* at (0,1), 1 + lambda_away*rho at (1,0), 1 - rho at (1,1) and 1 at every
\* other cell: each returned probability, times the normalisation total, is
\* the independent product times that factor.
C25_FatorDeCorrecao ==
    (/\ op = "calcular_probabilidades_dixon_coles"
     /\ ParametrosValidos
     /\ PesoTotal(args.lambda_casa, args.lambda_visitante, args.rho, args.max_gols) # Zero) =>
        /\ ret.raises = ""
        /\ Len(ret.val) = Len(Grid(args.max_gols))
        /\ \A k \in 1..Len(ret.val) :
              REq(RMul(ret.val[k].prob,
                       PesoTotal(args.lambda_casa, args.lambda_visitante, args.rho,
                                 args.max_gols)),
                  PesoAjustado(ret.val[k].placar[1], ret.val[k].placar[2],
                               args.lambda_casa, args.lambda_visitante, args.rho))

\* a call with different rates and rho # 0 on a grid that holds the four
\* adjusted cells, where (0,1) and (1,0) get different factors
C25_Witness ==
    /\ op = "calcular_probabilidades_dixon_coles"
    /\ args = [lambda_casa |-> Q(1, 2), lambda_visitante |-> Q(2, 1),
               rho |-> Q(-1, 10), max_gols |-> 2]
    /\ Len(ret.val) = 9
    /\ FatorDeCorrecao(0, 1, args.lambda_casa, args.lambda_visitante, args.rho)
          # FatorDeCorrecao(1, 0, args.lambda_casa, args.lambda_visitante, args.rho)
    /\ REq(RMul(ProbDe(ret.val, <<0, 1>>),
                PesoTotal(args.lambda_casa, args.lambda_visitante, args.rho, args.max_gols)),
           PesoAjustado(0, 1, args.lambda_casa, args.lambda_visitante, args.rho))

====
